---- MODULE Spec2Model ----
(***************************************************************************)
(* Post-processing pipeline of post_proc.py (and the stand-alone rdf.py):  *)
(* directory-key decoding, the three file parsers, and main's scan /       *)
(* aggregate / report / RDF loops.                                         *)
(*                                                                         *)
(* Text is modelled after tokenisation: a token is a sequence of           *)
(* one-character strings, a line is what strip()/split() leave of it.      *)
(* Numbers are decimal integer literals; a mean is kept as the exact       *)
(* fraction [num, den] the code divides (total / n).                       *)
(***************************************************************************)
EXTENDS Integers, Sequences, FiniteSets, TLC

VARIABLES
    density_file, density_out,   \* avg_density: its argument, its outcome
    calc_file, calc_out,         \* last_diff_visc: its argument, its outcome
    rdf_file, rdf_out,           \* process_rdf: its argument, its outcome
    pc,                          \* main: where it is
    dens_seen, calc_seen,        \* main: directories whose file rglob has yielded
    dens_paths, calc_paths,      \* main: the dicts of the same name
    keys_left,                   \* main: the part of all_keys still to visit
    records,                     \* main: the dict of the same name
    diff_visc,                   \* main: the locals diff, visc
    parsed,                      \* main: the files opened by the parsers
    table,                       \* results.txt: its lines, <<>> before it is written
    rdf_found,                   \* main: RDF files rglob has yielded, with their text
    rdf_counter,                 \* main: the defaultdict of the same name
    rdf_written                  \* results/: the rdf_T_<T>_P_<P>_<idx> outputs written

parserVars == <<density_file, density_out, calc_file, calc_out, rdf_file, rdf_out>>

mainVars == <<pc, dens_seen, calc_seen, dens_paths, calc_paths, keys_left, records,
              diff_visc, parsed, table, rdf_found, rdf_counter, rdf_written>>

vars == <<parserVars, mainVars>>

\* Value of a variable that the running specification does not use.
Idle == [idle |-> TRUE]

\* main does not run under the parsers' specifications.
MainIdle ==
    /\ pc = Idle /\ dens_seen = Idle /\ calc_seen = Idle
    /\ dens_paths = Idle /\ calc_paths = Idle /\ keys_left = Idle
    /\ records = Idle /\ diff_visc = Idle /\ parsed = Idle /\ table = Idle
    /\ rdf_found = Idle /\ rdf_counter = Idle /\ rdf_written = Idle

\* Outcome of a call that has not been made yet.
Pending == [err |-> "pending"]

----------------------------------------------------------------------------
(* Python outcomes: a returned value or a raised exception.                *)

Return(v) == [err |-> "none", val |-> v]

Raise(kind) == [err |-> kind]

Raised(r) == r.err \notin {"none", "pending"}

Returned(r) == r.err = "none"

----------------------------------------------------------------------------
(* Tokens and float().                                                     *)

Digits == {"0", "1", "2", "3", "4", "5", "6", "7", "8", "9"}

DigitVal(c) ==
    CASE c = "0" -> 0 [] c = "1" -> 1 [] c = "2" -> 2 [] c = "3" -> 3
      [] c = "4" -> 4 [] c = "5" -> 5 [] c = "6" -> 6 [] c = "7" -> 7
      [] c = "8" -> 8 [] c = "9" -> 9

IsDigits(tok) == Len(tok) > 0 /\ \A i \in 1..Len(tok) : tok[i] \in Digits

RECURSIVE DecimalValue(_)
DecimalValue(tok) ==
    IF tok = <<>> THEN 0
    ELSE 10 * DecimalValue(SubSeq(tok, 1, Len(tok) - 1)) + DigitVal(tok[Len(tok)])

\* float(tok): the value, or ValueError for a token that is no number.
\* (Tokens of the model are digit strings or contain a letter, '#' or nothing.)
Float(tok) ==
    IF IsDigits(tok) THEN Return(DecimalValue(tok)) ELSE Raise("ValueError")

StartsWithHash(toks) == Len(toks) > 0 /\ Len(toks[1]) > 0 /\ toks[1][1] = "#"

----------------------------------------------------------------------------
(* avg_density                                                             *)

\* parts[1] instead of parts[-1]
DensitySampleFirst(s) == Float(s[1])

\* float(parts[-1]) of a stripped, non-empty line s
DensitySample(s) == Float(s[Len(s)])

\* `if not s or s.startswith("#"): continue`
DensitySkipped(s) == s = <<>> \/ StartsWithHash(s)

RECURSIVE DensityLoop(_, _, _)
DensityLoop(lines, total, n) ==
    IF lines = <<>> THEN <<total, n>>
    ELSE LET s == Head(lines) IN
         IF DensitySkipped(s) THEN DensityLoop(Tail(lines), total, n)
         ELSE LET dens == DensitySample(s) IN
              IF Raised(dens) THEN DensityLoop(Tail(lines), total, n)
              ELSE DensityLoop(Tail(lines), total + dens.val, n + 1)

avg_density(file) ==
    LET acc == DensityLoop(file, 0, 0) IN
    IF acc[2] = 0 THEN Raise("ValueError")
    ELSE Return([num |-> acc[1], den |-> acc[2]])

\* Lines a density file of the model is made of (after strip and split).
T1 == <<"1">>
T2 == <<"2">>
T3 == <<"3">>
T1000 == <<"1", "0", "0", "0">>
T1002 == <<"1", "0", "0", "2">>
TWord == <<"a", "b", "c">>
THash == <<"#">>
THash7 == <<"#", "7">>

DensityLines ==
    { <<>>,                           \* blank line
      <<T1, T2, T3, T1000>>,
      <<T1, T2, T3, T1002>>,
      <<T3>>,
      <<THash, TWord>>,               \* "# abc"
      <<THash7>>,                     \* "#7"
      <<T1, TWord>>,                  \* last token is no number
      <<T2, THash7>> }                \* '#' inside the line, not at its start

MaxDensityLines == 4

RECURSIVE SeqsUpTo(_, _)
SeqsUpTo(S, k) ==
    IF k = 0 THEN {<<>>}
    ELSE LET shorter == SeqsUpTo(S, k - 1) IN
         shorter \cup {Append(q, x) : q \in {p \in shorter : Len(p) = k - 1}, x \in S}

DensityInit ==
    /\ density_file \in SeqsUpTo(DensityLines, MaxDensityLines)
    /\ density_out = Pending
    /\ calc_file = Idle /\ calc_out = Idle
    /\ rdf_file = Idle /\ rdf_out = Idle
    /\ MainIdle

CallAvgDensity ==
    /\ density_out = Pending
    /\ density_out' = avg_density(density_file)
    /\ UNCHANGED <<density_file, calc_file, calc_out, rdf_file, rdf_out, mainVars>>

SpecDensity == DensityInit /\ [][CallAvgDensity]_vars

\* C4 -- avg_density returns the arithmetic mean (sum / count) of the last
\* token of every line that is non-blank, does not start with '#' and whose
\* last token is a number; other lines are skipped without failing the file;
\* with no line retained it raises instead of returning a value.
C4Retained(s) == s # <<>> /\ s[1][1] # "#" /\ IsDigits(s[Len(s)])

C4Kept(file) == SelectSeq(file, C4Retained)

RECURSIVE C4SumLast(_, _)
C4SumLast(kept, i) ==
    IF i = 0 THEN 0
    ELSE DecimalValue(kept[i][Len(kept[i])]) + C4SumLast(kept, i - 1)

\* C4: avg_density returns sum / count of the last tokens of the retained
\* lines, and raises when no line is retained.
C4_AvgDensityIsMean ==
    density_out \notin {Idle, Pending} =>
        LET kept == C4Kept(density_file) IN
        IF kept = <<>> THEN Raised(density_out)
        ELSE /\ Returned(density_out)
             /\ density_out.val.den > 0
             /\ density_out.val.num * Len(kept)
                    = C4SumLast(kept, Len(kept)) * density_out.val.den

\* Two samples averaged (1000 and 1002 give 2002 / 2) around a line whose
\* last token is no number.
C4_Witness ==
    /\ density_file = << <<T1, T2, T3, T1000>>, <<T1, TWord>>, <<T1, T2, T3, T1002>> >>
    /\ density_out = Return([num |-> 2002, den |-> 2])

----------------------------------------------------------------------------
(* last_diff_visc                                                          *)
(* A line is the list of its comma-separated items; an item is the list of *)
(* its colon-separated parts, each stripped.                               *)

KeyD == <<"D", "[", "H", "2", "O", "]">>
KeyVisc == <<"v", "i", "s", "c", "o", "s", "i", "t", "y">>
KeyTime == <<"t", "i", "m", "e">>

CalcStartsWithHash(s) ==
    Len(s) > 0 /\ Len(s[1]) > 0 /\ Len(s[1][1]) > 0 /\ s[1][1][1] = "#"

\* `if s and not s.startswith("#")` without the comment test
CalcRetainedAnyText(s) == s # <<>>

\* `if s and not s.startswith("#")`
CalcRetained(s) == s # <<>> /\ ~CalcStartsWithHash(s)

\* `last` after the read loop: <<>> is None, <<s>> a line.
RECURSIVE CalcLastLine(_, _)
CalcLastLine(lines, last) ==
    IF lines = <<>> THEN last
    ELSE CalcLastLine(Tail(lines),
                      IF CalcRetained(Head(lines)) THEN <<Head(lines)>> ELSE last)

\* float(val.strip()) of item.split(":", 1)[1]: the text after the first colon
CalcValue(item) ==
    IF Len(item) = 2 THEN Float(item[2]) ELSE Raise("ValueError")

DictSet(d, k, v) == [x \in DOMAIN d \cup {k} |-> IF x = k THEN v ELSE d[x]]

EmptyDict == [x \in {} |-> 0]

\* the `for item in last.split(",")` loop: the dict, or the exception raised
RECURSIVE CalcFields(_, _)
CalcFields(items, fields) ==
    IF items = <<>> THEN Return(fields)
    ELSE LET item == Head(items) IN
         IF Len(item) < 2 THEN CalcFields(Tail(items), fields)
         ELSE LET v == CalcValue(item) IN
              IF Raised(v) THEN v
              ELSE CalcFields(Tail(items), DictSet(fields, item[1], v.val))

last_diff_visc(file) ==
    LET last == CalcLastLine(file, <<>>) IN
    IF last = <<>> THEN Raise("ValueError")
    ELSE LET fields == CalcFields(last[1], EmptyDict) IN
         IF Raised(fields) THEN fields
         ELSE IF KeyD \notin DOMAIN fields.val \/ KeyVisc \notin DOMAIN fields.val
              THEN Raise("KeyError")
              ELSE Return(<<fields.val[KeyD], fields.val[KeyVisc]>>)

T0 == <<"0">>
T5 == <<"5">>
T6 == <<"6">>

CalcFull1 == << <<KeyTime, T0>>, <<KeyD, T1>>, <<KeyVisc, T5>> >>
CalcFull2 == << <<KeyTime, T1>>, <<KeyD, T2>>, <<KeyVisc, T6>> >>

CalcLines ==
    { <<>>,                                              \* blank line
      CalcFull1,
      CalcFull2,
      << <<KeyTime, T1>>, <<KeyD, T2>> >>,               \* no viscosity
      << <<KeyVisc, T6>> >>,                             \* no D[H2O]
      << <<THash \o KeyD, T3>>, <<KeyVisc, T3>> >>,      \* "#D[H2O]:3, viscosity:3"
      << <<TWord>>, <<KeyD, T2>>, <<KeyVisc, T5>> >>,    \* item without colon
      << <<KeyD, TWord>>, <<KeyVisc, T6>> >>,            \* value is no number
      << <<KeyD, T1>>, <<KeyD, T3>>, <<KeyVisc, T5, T6>> >> }  \* "viscosity:5:6"

MaxCalcLines == 4

CalcInit ==
    /\ calc_file \in SeqsUpTo(CalcLines, MaxCalcLines)
    /\ calc_out = Pending
    /\ density_file = Idle /\ density_out = Idle
    /\ rdf_file = Idle /\ rdf_out = Idle
    /\ MainIdle

CallLastDiffVisc ==
    /\ calc_out = Pending
    /\ calc_out' = last_diff_visc(calc_file)
    /\ UNCHANGED <<calc_file, density_file, density_out, rdf_file, rdf_out, mainVars>>

SpecCalc == CalcInit /\ [][CallLastDiffVisc]_vars

\* C5 -- last_diff_visc returns the (D[H2O], viscosity) values of the last
\* non-blank, non-comment line and nothing from earlier lines: the outcome is
\* the outcome on the file made of that line alone; when that line lacks
\* D[H2O] or viscosity, or no line is retained, it raises, even if an earlier
\* line holds both keys.
C5Data(file) ==
    {i \in 1..Len(file) : file[i] # <<>> /\ file[i][1][1][1] # "#"}

C5Last(file) == file[CHOOSE i \in C5Data(file) : \A j \in C5Data(file) : j <= i]

C5Items(L, k) == {j \in 1..Len(L) : Len(L[j]) >= 2 /\ L[j][1] = k}

C5Value(L, k) ==
    DecimalValue(L[CHOOSE j \in C5Items(L, k) : \A h \in C5Items(L, k) : h <= j][2])

C5AllNumeric(L) ==
    \A j \in 1..Len(L) : Len(L[j]) >= 2 => Len(L[j]) = 2 /\ IsDigits(L[j][2])

\* C5: the last retained line alone decides what last_diff_visc returns or
\* raises.
C5_LastLineDecides ==
    calc_out \notin {Idle, Pending} =>
        IF C5Data(calc_file) = {} THEN Raised(calc_out)
        ELSE LET L == C5Last(calc_file) IN
             /\ calc_out = last_diff_visc(<<L>>)
             /\ (C5Items(L, KeyD) = {} \/ C5Items(L, KeyVisc) = {}) => Raised(calc_out)
             /\ Returned(calc_out) =>
                    calc_out.val = <<C5Value(L, KeyD), C5Value(L, KeyVisc)>>
             /\ (C5Items(L, KeyD) # {} /\ C5Items(L, KeyVisc) # {} /\ C5AllNumeric(L))
                    => Returned(calc_out)

\* The first snapshot is ignored, the comment after the second one too.
C5_Witness ==
    /\ calc_file = << CalcFull1, CalcFull2,
                      << <<THash \o KeyD, T3>>, <<KeyVisc, T3>> >> >>
    /\ calc_out = Return(<<2, 6>>)

----------------------------------------------------------------------------
(* process_rdf (the same loop and means as the body of rdf.py)             *)
(* A raw line is [indent, toks]: whether it starts with white space, and   *)
(* its split() tokens.                                                     *)

\* `if line.startswith("#") or not line.strip(): continue`
RdfSkipped(line) == (~line.indent /\ StartsWithHash(line.toks)) \/ line.toks = <<>>

\* a header only when the line has two tokens and a block is already open
RdfIsHeaderOnlyFirst(parts, current) == Len(parts) = 2 /\ current = <<>>

\* `if len(parts) == 2:`
RdfIsHeader(parts, current) == Len(parts) = 2

\* [float(x) for x in parts]: the row, or the ValueError of its first bad token
RECURSIVE RdfRow(_, _)
RdfRow(parts, row) ==
    IF parts = <<>> THEN Return(row)
    ELSE LET x == Float(Head(parts)) IN
         IF Raised(x) THEN x ELSE RdfRow(Tail(parts), Append(row, x.val))

\* np.array(current, float): rows of unequal length do not make an array
NpArray(rows) ==
    IF \E i, j \in 1..Len(rows) : Len(rows[i]) # Len(rows[j])
    THEN Raise("ValueError")
    ELSE Return(rows)

\* The read loop and the flush after it.  current: <<>> is None, <<rows>> an
\* open block.  Gives the blocks, or the exception raised.
RECURSIVE RdfLoop(_, _, _)
RdfLoop(lines, blocks, current) ==
    IF lines = <<>> THEN
        IF current = <<>> THEN Return(blocks)
        ELSE LET b == NpArray(current[1]) IN
             IF Raised(b) THEN b ELSE Return(Append(blocks, b.val))
    ELSE LET line == Head(lines) IN
         IF RdfSkipped(line) THEN RdfLoop(Tail(lines), blocks, current)
         ELSE IF RdfIsHeader(line.toks, current) THEN
             IF current = <<>> THEN RdfLoop(Tail(lines), blocks, << <<>> >>)
             ELSE LET b == NpArray(current[1]) IN
                  IF Raised(b) THEN b
                  ELSE RdfLoop(Tail(lines), Append(blocks, b.val), << <<>> >>)
         ELSE IF current = <<>> THEN Raise("AttributeError")   \* None.append
         ELSE LET row == RdfRow(line.toks, <<>>) IN
              IF Raised(row) THEN row
              ELSE RdfLoop(Tail(lines), blocks, <<Append(current[1], row.val)>>)

\* b[:, c] (c counted from 0): an empty block is one-dimensional
Column(b, c) ==
    IF b = <<>> \/ Len(b[1]) <= c THEN Raise("IndexError")
    ELSE Return([i \in 1..Len(b) |-> b[i][c + 1]])

RECURSIVE SumAt(_, _, _)
SumAt(cols, i, k) == IF k = 0 THEN 0 ELSE cols[k][i] + SumAt(cols, i, k - 1)

\* the mean of the first block's column only
MeanOfFirstColumn(blocks, c) ==
    LET col == Column(blocks[1], c) IN
    IF Raised(col) THEN col
    ELSE Return([i \in 1..Len(col.val) |-> [num |-> col.val[i], den |-> 1]])

\* np.mean([b[:, c] for b in blocks], axis=0)
MeanOfColumn(blocks, c) ==
    LET cols == [k \in 1..Len(blocks) |-> Column(blocks[k], c)] IN
    IF \E k \in 1..Len(blocks) : Raised(cols[k]) THEN Raise("IndexError")
    ELSE IF \E k \in 1..Len(blocks) : Len(cols[k].val) # Len(cols[1].val)
    THEN Raise("ValueError")
    ELSE Return([i \in 1..Len(cols[1].val) |->
                    [num |-> SumAt([k \in 1..Len(blocks) |-> cols[k].val], i, Len(blocks)),
                     den |-> Len(blocks)]])

process_rdf(file) ==
    LET blocks == RdfLoop(file, <<>>, <<>>) IN
    IF Raised(blocks) THEN blocks
    ELSE IF blocks.val = <<>> THEN Raise("ValueError")
    ELSE LET r == Column(blocks.val[1], 1)
             g77 == MeanOfColumn(blocks.val, 2)
             g88 == MeanOfColumn(blocks.val, 4)
             g78 == MeanOfColumn(blocks.val, 6)
         IN  IF Raised(r) THEN r
             ELSE IF Raised(g77) THEN g77
             ELSE IF Raised(g88) THEN g88
             ELSE IF Raised(g78) THEN g78
             ELSE Return([r |-> r.val, g77 |-> g77.val, g88 |-> g88.val, g78 |-> g78.val])

Toks(chars) == [i \in 1..Len(chars) |-> <<chars[i]>>]

RdfHeader == [indent |-> FALSE, toks |-> <<T1000, T2>>]
RdfRowA == [indent |-> FALSE, toks |-> Toks(<<"1", "1", "2", "0", "4", "0", "6">>)]
RdfRowB == [indent |-> TRUE, toks |-> Toks(<<"2", "3", "4", "0", "8", "0", "2">>)]

RdfLines ==
    { RdfHeader, RdfRowA, RdfRowB,
      [indent |-> FALSE, toks |-> <<THash, TWord>>],   \* "# abc": a comment
      [indent |-> TRUE, toks |-> <<THash, TWord>>],    \* " # abc": two tokens
      [indent |-> FALSE, toks |-> <<>>] }              \* blank line

MaxRdfLines == 6

RdfInit ==
    /\ rdf_file \in SeqsUpTo(RdfLines, MaxRdfLines)
    /\ rdf_out = Pending
    /\ density_file = Idle /\ density_out = Idle
    /\ calc_file = Idle /\ calc_out = Idle
    /\ MainIdle

CallProcessRdf ==
    /\ rdf_out = Pending
    /\ rdf_out' = process_rdf(rdf_file)
    /\ UNCHANGED <<rdf_file, density_file, density_out, calc_file, calc_out, mainVars>>

SpecRdf == RdfInit /\ [][CallProcessRdf]_vars

\* C6 -- process_rdf starts a block at every two-token line and gives each
\* following data row to it; for B >= 1 blocks of one shape it returns r =
\* column 1 of the first block and g77, g88, g78 = per-bin means over the B
\* blocks of columns 2, 4, 6, so identical blocks give what one of them gives;
\* a file with no block raises.
C6IsData(line) ==
    line.toks # <<>> /\ (line.indent \/ line.toks[1][1] # "#")

C6Heads(data) == {i \in 1..Len(data) : Len(data[i].toks) = 2}

\* number of data rows after the header at h, up to the next header
C6Rows(data, h) ==
    LET later == {k \in C6Heads(data) : k > h} IN
    IF later = {} THEN Len(data) - h
    ELSE (CHOOSE k \in later : \A m \in later : k <= m) - h - 1

C6WellFormed(data) ==
    /\ 1 \in C6Heads(data)
    /\ \A i \in (1..Len(data)) \ C6Heads(data) :
          /\ Len(data[i].toks) >= 7
          /\ Len(data[i].toks) = Len(data[2].toks)
          /\ \A c \in 1..Len(data[i].toks) : IsDigits(data[i].toks[c])
    /\ \A h \in C6Heads(data) : C6Rows(data, h) = C6Rows(data, 1) /\ C6Rows(data, h) >= 1

C6Cell(data, i, c) == DecimalValue(data[i].toks[c + 1])

RECURSIVE C6Sum(_, _, _, _)
C6Sum(data, heads, i, c) ==
    IF heads = {} THEN 0
    ELSE LET h == CHOOSE x \in heads : TRUE IN
         C6Cell(data, h + i, c) + C6Sum(data, heads \ {h}, i, c)

C6MeanIs(g, data, c) ==
    /\ Len(g) = C6Rows(data, 1)
    /\ \A i \in 1..Len(g) :
          /\ g[i].den = Cardinality(C6Heads(data))
          /\ g[i].num = C6Sum(data, C6Heads(data), i, c)

C6SameAs(g, g1) ==
    /\ Len(g) = Len(g1)
    /\ \A i \in 1..Len(g) : g[i].num * g1[i].den = g1[i].num * g[i].den

C6AllAlike(data) ==
    \A h \in C6Heads(data) : \A i \in 1..C6Rows(data, 1) :
        data[h + i].toks = data[1 + i].toks

\* C6: r is column 1 of the first block, g77, g88, g78 the per-bin means of
\* columns 2, 4, 6 over the blocks; no block raises; alike blocks give what
\* one gives.
C6_BlockMeans ==
    rdf_out \notin {Idle, Pending} =>
        LET data == SelectSeq(rdf_file, C6IsData) IN
        /\ C6Heads(data) = {} => Raised(rdf_out)
        /\ C6WellFormed(data) =>
              /\ Returned(rdf_out)
              /\ Len(rdf_out.val.r) = C6Rows(data, 1)
              /\ \A i \in 1..C6Rows(data, 1) : rdf_out.val.r[i] = C6Cell(data, 1 + i, 1)
              /\ C6MeanIs(rdf_out.val.g77, data, 2)
              /\ C6MeanIs(rdf_out.val.g88, data, 4)
              /\ C6MeanIs(rdf_out.val.g78, data, 6)
              /\ C6AllAlike(data) =>
                    LET one == process_rdf(SubSeq(data, 1, 1 + C6Rows(data, 1))) IN
                    /\ Returned(one)
                    /\ rdf_out.val.r = one.val.r
                    /\ C6SameAs(rdf_out.val.g77, one.val.g77)
                    /\ C6SameAs(rdf_out.val.g88, one.val.g88)
                    /\ C6SameAs(rdf_out.val.g78, one.val.g78)

\* Two different one-row blocks: r from the first, the means over both.
C6_Witness ==
    /\ rdf_file = <<RdfHeader, RdfRowA, RdfHeader, RdfRowB>>
    /\ Returned(rdf_out)
    /\ rdf_out.val.r = <<1>>
    /\ rdf_out.val.g77 = << [num |-> 6, den |-> 2] >>
    /\ rdf_out.val.g88 = << [num |-> 12, den |-> 2] >>
    /\ rdf_out.val.g78 = << [num |-> 8, den |-> 2] >>

----------------------------------------------------------------------------
(* find_tp_ancestor                                                        *)
(* A directory is the list of its path components below "/", a component   *)
(* a sequence of characters (printable, no line break).                    *)

\* Ends i of the first number when name[b..] reads T_<digits>_P_<digits> to
\* the end of the name (at most one i: digits hold no '_').
TPPrefixAt(name, b) ==
    LET n == Len(name) IN
    {i \in (b + 2)..(n - 4) :
        /\ name[b] = "T" /\ name[b + 1] = "_"
        /\ IsDigits(SubSeq(name, b + 2, i))
        /\ name[i + 1] = "_" /\ name[i + 2] = "P" /\ name[i + 3] = "_"
        /\ IsDigits(SubSeq(name, i + 4, n))}

\* TP_DIR_RE without the ^ anchor: T_<int>_P_<int> may end anywhere a name ends
TPSuffixMatch(name) ==
    LET n == Len(name)
        starts == {b \in 1..n : TPPrefixAt(name, b) # {}}
    IN  IF starts = {} THEN <<>>
        ELSE LET b == CHOOSE x \in starts : TRUE
                 i == CHOOSE x \in TPPrefixAt(name, b) : TRUE
             IN  <<DecimalValue(SubSeq(name, b + 2, i)), DecimalValue(SubSeq(name, i + 4, n))>>

\* TP_DIR_RE.match(name): <<>> for no match, else <<int(group 1), int(group 2)>>
TPMatch(name) ==
    LET ends == TPPrefixAt(name, 1) IN
    IF ends = {} THEN <<>>
    ELSE LET i == CHOOSE x \in ends : TRUE IN
         <<DecimalValue(SubSeq(name, 3, i)), DecimalValue(SubSeq(name, i + 4, Len(name)))>>

\* the walk over [p] + list(p.parents), from p upward; every one is a
\* directory.  <<>> is None.  The last parent, "/", has the empty name.
RECURSIVE find_tp_ancestor(_)
find_tp_ancestor(p) ==
    IF p = <<>> THEN TPMatch(<<>>)
    ELSE LET m == TPMatch(p[Len(p)]) IN
         IF m # <<>> THEN m ELSE find_tp_ancestor(SubSeq(p, 1, Len(p) - 1))

NameA == <<"T", "_", "3", "1", "3", "_", "P", "_", "1">>
NameB == <<"T", "_", "1", "0", "0", "_", "P", "_", "2", "0">>
NameTemp == <<"T", "e", "m", "p", "_", "3", "1", "3", "_", "P", "r", "e", "s", "s", "_", "1">>
NameNoSep == <<"T", "_", "3", "1", "3", "P", "_", "1">>
NameAlmost == <<"x", "T", "_", "1", "0", "0", "_", "P", "_", "2", "0">>
NameSim == <<"s", "i", "m">>

\* the resolved root directory main scans
RootPath == <<NameSim>>

\* Directories under the root that hold result files.
DirA == RootPath \o <<NameA>>
DirA2 == RootPath \o <<NameB, NameA, NameAlmost>>
DirB == RootPath \o <<NameB>>
DirNone == RootPath \o <<NameTemp, NameNoSep>>

Dirs == {DirA, DirA2, DirB, DirNone}

----------------------------------------------------------------------------
(* write_results_txt                                                       *)

\* the order of sorted() on (T, P) tuples
KeyLess(a, b) == a[1] < b[1] \/ (a[1] = b[1] /\ a[2] < b[2])

RECURSIVE SortKeys(_)
SortKeys(S) ==
    IF S = {} THEN <<>>
    ELSE LET least == CHOOSE k \in S : \A o \in S \ {k} : KeyLess(k, o) IN
         <<least>> \o SortKeys(S \ {least})

\* f"{v:<fmt>}": a value printed with a format specification
Formatted(fmt, v) == [fmt |-> fmt, of |-> v]

HeaderLine ==
    [T |-> Formatted(">8", "T(K)"), P |-> Formatted(">8", "P(bar)"),
     density |-> Formatted(">12", "Density"),
     self_diffusion |-> Formatted(">15", "SelfDiff"),
     viscosity |-> Formatted(">15", "Viscosity")]

\* each column on its own: the number when the field is set, else MISSING
ResultRowPerField(key, rec) ==
    [T |-> Formatted(">8", key[1]), P |-> Formatted(">8", key[2]),
     density |-> IF "density" \in DOMAIN rec
                 THEN Formatted("12.6f", rec["density"])
                 ELSE Formatted(">12", "MISSING"),
     self_diffusion |-> IF "self_diffusion" \in DOMAIN rec
                        THEN Formatted("15.6e", rec["self_diffusion"])
                        ELSE Formatted(">15", "MISSING"),
     viscosity |-> IF "viscosity" \in DOMAIN rec
                   THEN Formatted("15.6e", rec["viscosity"])
                   ELSE Formatted(">15", "MISSING")]

\* a data row of results.txt, column by column; a field that is set is a float
ResultRow(key, rec) ==
    IF {"density", "self_diffusion", "viscosity"} \subseteq DOMAIN rec
    THEN [T |-> Formatted(">8", key[1]), P |-> Formatted(">8", key[2]),
          density |-> Formatted("12.6f", rec["density"]),
          self_diffusion |-> Formatted("15.6e", rec["self_diffusion"]),
          viscosity |-> Formatted("15.6e", rec["viscosity"])]
    ELSE [T |-> Formatted(">8", key[1]), P |-> Formatted(">8", key[2]),
          density |-> Formatted(">12", "MISSING"),
          self_diffusion |-> Formatted(">15", ""),
          viscosity |-> Formatted(">15", "")]

write_results_txt(recs) ==
    LET keys == SortKeys(DOMAIN recs) IN
    <<HeaderLine>> \o [i \in 1..Len(keys) |-> ResultRow(keys[i], recs[keys[i]])]

----------------------------------------------------------------------------
(* main                                                                    *)

\* Texts a result file of the model holds.
DensityGood == << <<T1, T2, T3, T1000>>, <<T1, T2, T3, T1002>>, <<THash, TWord>> >>
DensityEmpty == << <<THash, TWord>>, <<>> >>
CalcGood == <<CalcFull1, CalcFull2>>
CalcNoVisc == <<CalcFull1, << <<KeyTime, T1>>, <<KeyD, T2>> >> >>
RdfGood == <<RdfHeader, RdfRowA, RdfHeader, RdfRowB>>
RdfNoBlock == << [indent |-> FALSE, toks |-> <<THash, TWord, TWord>>] >>

DensityTexts == {DensityGood, DensityEmpty}
CalcTexts == {CalcGood, CalcNoVisc}
RdfTexts == {RdfGood, RdfNoBlock}

\* records[(T, P)] = {f: v}
StoreFieldAlone(rec, f, v) == [x \in {f} |-> v]

\* records[(T, P)][f] = v
StoreField(rec, f, v) == DictSet(rec, f, v)

\* d.setdefault(k, v) that overwrites
SetAlways(d, k, v) == DictSet(d, k, v)

\* d.setdefault(k, v)
SetDefault(d, k, v) == IF k \in DOMAIN d THEN d ELSE DictSet(d, k, v)

\* `except ValueError:`
CaughtValueErrorOnly(exc) == exc.err = "ValueError"

\* `except Exception:`
Caught(exc) == TRUE

MainInit ==
    /\ pc = "scan_density"
    /\ dens_seen = {} /\ calc_seen = {}
    /\ dens_paths = EmptyDict /\ calc_paths = EmptyDict
    /\ keys_left = <<>>
    /\ records = EmptyDict
    /\ diff_visc = <<>>
    /\ parsed = {}
    /\ table = <<>>
    /\ rdf_found = EmptyDict
    /\ rdf_counter = EmptyDict
    /\ rdf_written = {}
    /\ density_file = Idle /\ density_out = Idle
    /\ calc_file = Idle /\ calc_out = Idle
    /\ rdf_file = Idle /\ rdf_out = Idle

\* `for f in root.rglob(DENSITY_FILE)`, one file, in whatever order rglob yields
ScanDensityFile ==
    /\ pc = "scan_density"
    /\ \E d \in Dirs \ dens_seen, text \in DensityTexts :
          LET tp == find_tp_ancestor(d) IN
          /\ dens_seen' = dens_seen \cup {d}
          /\ dens_paths' = IF tp # <<>>
                           THEN SetDefault(dens_paths, tp, [dir |-> d, text |-> text])
                           ELSE dens_paths
    /\ UNCHANGED <<pc, calc_seen, calc_paths, keys_left, records, diff_visc, parsed,
                   table, rdf_found, rdf_counter, rdf_written, parserVars>>

\* rglob(DENSITY_FILE) is exhausted
EndScanDensity ==
    /\ pc = "scan_density"
    /\ pc' = "scan_calc"
    /\ UNCHANGED <<dens_seen, calc_seen, dens_paths, calc_paths, keys_left, records,
                   diff_visc, parsed, table, rdf_found, rdf_counter, rdf_written,
                   parserVars>>

ScanCalcFile ==
    /\ pc = "scan_calc"
    /\ \E d \in Dirs \ calc_seen, text \in CalcTexts :
          LET tp == find_tp_ancestor(d) IN
          /\ calc_seen' = calc_seen \cup {d}
          /\ calc_paths' = IF tp # <<>>
                           THEN SetDefault(calc_paths, tp, [dir |-> d, text |-> text])
                           ELSE calc_paths
    /\ UNCHANGED <<pc, dens_seen, dens_paths, keys_left, records, diff_visc, parsed,
                   table, rdf_found, rdf_counter, rdf_written, parserVars>>

\* rglob(CALC_FILE) is exhausted; all_keys is computed
EndScanCalc ==
    /\ pc = "scan_calc"
    /\ keys_left' = SortKeys(DOMAIN dens_paths \cup DOMAIN calc_paths)
    /\ pc' = "for_key"
    /\ UNCHANGED <<dens_seen, calc_seen, dens_paths, calc_paths, records, diff_visc,
                   parsed, table, rdf_found, rdf_counter, rdf_written, parserVars>>

\* what an exception inside the try block leads to
AfterException(exc) == IF Caught(exc) THEN "for_key" ELSE "crashed"

\* loop head: setdefault, the two get()s and `if dfile and cfile`
ForKey ==
    /\ pc = "for_key"
    /\ keys_left # <<>>
    /\ LET key == Head(keys_left) IN
       /\ records' = SetDefault(records, key, EmptyDict)
       /\ IF key \in DOMAIN dens_paths /\ key \in DOMAIN calc_paths
          THEN pc' = "avg_density" /\ UNCHANGED keys_left
          ELSE pc' = "for_key" /\ keys_left' = Tail(keys_left)
    /\ UNCHANGED <<dens_seen, calc_seen, dens_paths, calc_paths, diff_visc, parsed,
                   table, rdf_found, rdf_counter, rdf_written, parserVars>>

\* records[(T, P)]["density"] = avg_density(dfile)
StoreDensity ==
    /\ pc = "avg_density"
    /\ LET key == Head(keys_left)
           dfile == dens_paths[key]
           r == avg_density(dfile.text)
       IN  /\ parsed' = parsed \cup {<<"density", dfile.dir>>}
           /\ IF Raised(r)
              THEN /\ pc' = AfterException(r)
                   /\ keys_left' = Tail(keys_left)
                   /\ UNCHANGED records
              ELSE /\ pc' = "last_diff_visc"
                   /\ records' = DictSet(records, key, StoreField(records[key], "density", r.val))
                   /\ UNCHANGED keys_left
    /\ UNCHANGED <<dens_seen, calc_seen, dens_paths, calc_paths, diff_visc, table,
                   rdf_found, rdf_counter, rdf_written, parserVars>>

\* diff, visc = last_diff_visc(cfile)
CallCalc ==
    /\ pc = "last_diff_visc"
    /\ LET key == Head(keys_left)
           cfile == calc_paths[key]
           r == last_diff_visc(cfile.text)
       IN  /\ parsed' = parsed \cup {<<"calc", cfile.dir>>}
           /\ IF Raised(r)
              THEN /\ pc' = AfterException(r)
                   /\ keys_left' = Tail(keys_left)
                   /\ UNCHANGED diff_visc
              ELSE /\ pc' = "store_diff"
                   /\ diff_visc' = r.val
                   /\ UNCHANGED keys_left
    /\ UNCHANGED <<dens_seen, calc_seen, dens_paths, calc_paths, records, table,
                   rdf_found, rdf_counter, rdf_written, parserVars>>

\* records[(T, P)]["self_diffusion"] = diff
StoreDiff ==
    /\ pc = "store_diff"
    /\ LET key == Head(keys_left) IN
       records' = DictSet(records, key, StoreField(records[key], "self_diffusion", diff_visc[1]))
    /\ pc' = "store_visc"
    /\ UNCHANGED <<dens_seen, calc_seen, dens_paths, calc_paths, keys_left, diff_visc,
                   parsed, table, rdf_found, rdf_counter, rdf_written, parserVars>>

\* records[(T, P)]["viscosity"] = visc; the iteration ends
StoreVisc ==
    /\ pc = "store_visc"
    /\ LET key == Head(keys_left) IN
       records' = DictSet(records, key, StoreField(records[key], "viscosity", diff_visc[2]))
    /\ pc' = "for_key"
    /\ keys_left' = Tail(keys_left)
    /\ UNCHANGED <<dens_seen, calc_seen, dens_paths, calc_paths, diff_visc, parsed,
                   table, rdf_found, rdf_counter, rdf_written, parserVars>>

\* the loop is over: write_results_txt(results_dir, records)
\* (plot_vs_temperature, which follows, only reads records)
WriteResults ==
    /\ pc = "for_key"
    /\ keys_left = <<>>
    /\ table' = write_results_txt(records)
    /\ pc' = "scan_rdf"
    /\ UNCHANGED <<dens_seen, calc_seen, dens_paths, calc_paths, keys_left, records,
                   diff_visc, parsed, rdf_found, rdf_counter, rdf_written, parserVars>>

\* rdf_found of a file: the text process_rdf reads from it; a file that
\* `if not tp: continue` skips is never opened
RdfFile(tp, text) == [opened |-> tp # <<>>, text |-> IF tp # <<>> THEN text ELSE <<>>]

\* rdf_counter[(T, P)] = 1
IncrementStuck(counter, k) == DictSet(counter, k, 1)

\* rdf_counter[(T, P)] += 1 on a defaultdict(int)
Increment(counter, k) ==
    DictSet(counter, k, (IF k \in DOMAIN counter THEN counter[k] ELSE 0) + 1)

\* one iteration of `for rdf in root.rglob(RDF_FILE)`
ScanRdfFile ==
    /\ pc = "scan_rdf"
    /\ \E d \in Dirs \ DOMAIN rdf_found, text \in RdfTexts :
          LET tp == find_tp_ancestor(d)
              r == process_rdf(text)
          IN  /\ rdf_found' = DictSet(rdf_found, d, RdfFile(tp, text))
              /\ IF tp = <<>> THEN UNCHANGED <<pc, parsed, rdf_counter, rdf_written>>
                 ELSE /\ parsed' = parsed \cup {<<"rdf", d>>}
                      /\ IF Raised(r)
                         THEN /\ pc' = (IF Caught(r) THEN "scan_rdf" ELSE "crashed")
                              /\ UNCHANGED <<rdf_counter, rdf_written>>
                         ELSE /\ rdf_counter' = Increment(rdf_counter, tp)
                              /\ rdf_written' = rdf_written \cup
                                    {[T |-> tp[1], P |-> tp[2],
                                      idx |-> rdf_counter'[tp], src |-> d]}
                              /\ UNCHANGED pc
    /\ UNCHANGED <<dens_seen, calc_seen, dens_paths, calc_paths, keys_left, records,
                   diff_visc, table, parserVars>>

\* rglob(RDF_FILE) is exhausted; main returns
EndScanRdf ==
    /\ pc = "scan_rdf"
    /\ pc' = "done"
    /\ UNCHANGED <<dens_seen, calc_seen, dens_paths, calc_paths, keys_left, records,
                   diff_visc, parsed, table, rdf_found, rdf_counter, rdf_written,
                   parserVars>>

Next ==
    \/ ScanDensityFile \/ EndScanDensity
    \/ ScanCalcFile \/ EndScanCalc
    \/ ForKey \/ StoreDensity \/ CallCalc \/ StoreDiff \/ StoreVisc
    \/ WriteResults
    \/ ScanRdfFile \/ EndScanRdf

Spec == MainInit /\ [][Next]_vars

----------------------------------------------------------------------------
(* Properties of main and write_results_txt.                               *)

TableWritten == pc \in {"scan_rdf", "done"}

IsSet(key, f) == key \in DOMAIN records /\ f \in DOMAIN records[key]

IsNumberColumn(col) == col.fmt \in {"12.6f", "15.6e"}

IsMissingColumn(col) == col.fmt \in {">12", ">15"} /\ col.of = "MISSING"

RowKey(row) == <<row.T.of, row.P.of>>

RowsOf(key) == {i \in 2..Len(table) : RowKey(table[i]) = key}

UnionKeys == DOMAIN dens_paths \cup DOMAIN calc_paths

\* C1 -- in the table of write_results_txt a key whose record has density set
\* but self_diffusion and viscosity unset gets a row with the numeric density
\* and "MISSING" in the diffusion and viscosity columns; a fully populated key
\* gets a row of three numbers.
C1_DensityOnlyRow ==
    TableWritten =>
        \A key \in DOMAIN records :
            /\ (IsSet(key, "density") /\ ~IsSet(key, "self_diffusion")
                    /\ ~IsSet(key, "viscosity")) =>
                  \E i \in RowsOf(key) :
                      /\ IsNumberColumn(table[i].density)
                      /\ IsMissingColumn(table[i].self_diffusion)
                      /\ IsMissingColumn(table[i].viscosity)
            /\ (IsSet(key, "density") /\ IsSet(key, "self_diffusion")
                    /\ IsSet(key, "viscosity")) =>
                  \E i \in RowsOf(key) :
                      /\ IsNumberColumn(table[i].density)
                      /\ IsNumberColumn(table[i].self_diffusion)
                      /\ IsNumberColumn(table[i].viscosity)

\* C1 as amended: a key whose record lacks a field (density alone set, or
\* nothing set) gets a row with "MISSING" in the density column and empty
\* diffusion and viscosity columns, the density it has is not shown; a fully
\* populated key gets a row of three numbers.
C1IsEmptyColumn(col) == col.fmt = ">15" /\ col.of = ""

\* C1 (amended): a row is three numbers when all fields are set, else MISSING
\* in the density column and two empty columns.
C1_AnyMissingFieldRow ==
    TableWritten =>
        \A key \in DOMAIN records :
            \E i \in RowsOf(key) :
                IF IsSet(key, "density") /\ IsSet(key, "self_diffusion")
                      /\ IsSet(key, "viscosity")
                THEN /\ IsNumberColumn(table[i].density)
                     /\ table[i].density.of = records[key]["density"]
                     /\ IsNumberColumn(table[i].self_diffusion)
                     /\ table[i].self_diffusion.of = records[key]["self_diffusion"]
                     /\ IsNumberColumn(table[i].viscosity)
                     /\ table[i].viscosity.of = records[key]["viscosity"]
                ELSE /\ IsMissingColumn(table[i].density)
                     /\ C1IsEmptyColumn(table[i].self_diffusion)
                     /\ C1IsEmptyColumn(table[i].viscosity)

\* The report holds a complete record and one with density alone.
C1_Witness ==
    /\ TableWritten
    /\ Len(table) = 3
    /\ records[<<100, 20>>] = [density |-> [num |-> 2002, den |-> 2]]
    /\ DOMAIN records[<<313, 1>>] = {"density", "self_diffusion", "viscosity"}
    /\ IsMissingColumn(table[2].density)
    /\ IsNumberColumn(table[3].density)

\* C2 -- for every key of the union of both key sets main attempts each parse
\* independently: density is set whenever a density file of the key exists and
\* avg_density succeeds on it, self_diffusion and viscosity whenever a
\* calculated-properties file exists and last_diff_visc succeeds on it.
C2_IndependentParses ==
    TableWritten =>
        \A key \in UnionKeys :
            /\ (key \in DOMAIN dens_paths /\ Returned(avg_density(dens_paths[key].text)))
                  => IsSet(key, "density")
            /\ (key \in DOMAIN calc_paths /\ Returned(last_diff_visc(calc_paths[key].text)))
                  => IsSet(key, "self_diffusion") /\ IsSet(key, "viscosity")

\* C3 -- whatever files are found and whichever parses fail, the run does not
\* abort and reaches write_results_txt, and the table has exactly one data row
\* per key of the union of both key sets, in ascending order of temperature,
\* then pressure; with no file at all it is the header alone.
C3BeforeWrite ==
    {"scan_density", "scan_calc", "for_key", "avg_density", "last_diff_visc",
     "store_diff", "store_visc"}

C7Expected(d) ==
    CASE d = DirA -> <<313, 1>>        \* sim/T_313_P_1
      [] d = DirA2 -> <<313, 1>>       \* sim/T_100_P_20/T_313_P_1/xT_100_P_20
      [] d = DirB -> <<100, 20>>       \* sim/T_100_P_20
      [] d = DirNone -> <<>>           \* sim/Temp_313_Press_1/T_313P_1

C7PathsRight(seen, paths) ==
    /\ \A k \in DOMAIN paths : C7Expected(paths[k].dir) = k /\ paths[k].dir \in seen
    /\ \A d \in seen : C7Expected(d) # <<>> => C7Expected(d) \in DOMAIN paths

\* C7: every stored path and every RDF output carries the key of its nearest
\* T_<int>_P_<int> ancestor; files without one are left out without error.
C7_NearestAncestorDecides ==
    /\ pc # "crashed"
    /\ C7PathsRight(dens_seen, dens_paths)
    /\ C7PathsRight(calc_seen, calc_paths)
    /\ \A w \in rdf_written : C7Expected(w.src) = <<w.T, w.P>>
    /\ \A d \in DOMAIN rdf_found :
          /\ C7Expected(d) = <<>> =>
                <<"rdf", d>> \notin parsed /\ \A w \in rdf_written : w.src # d
          /\ C7Expected(d) # <<>> => <<"rdf", d>> \in parsed

\* All three scans met the file under Temp_313_Press_1/T_313P_1 and the one
\* three levels down whose nearest match is T_313_P_1, not T_100_P_20.
C7_Witness ==
    /\ pc = "done"
    /\ DirNone \in dens_seen /\ DirNone \in calc_seen /\ DirNone \in DOMAIN rdf_found
    /\ <<313, 1>> \in DOMAIN dens_paths /\ dens_paths[<<313, 1>>].dir = DirA2
    /\ <<313, 1>> \in DOMAIN calc_paths /\ calc_paths[<<313, 1>>].dir = DirA2
    /\ \E w \in rdf_written : w.src = DirA2 /\ w.T = 313 /\ w.P = 1
    /\ DOMAIN dens_paths = {<<313, 1>>}

\* C8 -- with several density (or calculated-properties) files of one key, the
\* file stored for the key is the first one met: once a key has a path no
\* later file replaces it, and only that file is parsed for the key.
C8FirstKept(seen, paths, seenNext, pathsNext) ==
    /\ \A k \in DOMAIN paths : k \in DOMAIN pathsNext /\ pathsNext[k] = paths[k]
    /\ \A k \in DOMAIN pathsNext \ DOMAIN paths :
          /\ pathsNext[k].dir \in seenNext \ seen
          /\ \A d \in seen : find_tp_ancestor(d) # k

C8OnlyStoredParsed ==
    \A e \in parsed :
        /\ e[1] = "density" => \E k \in DOMAIN dens_paths : dens_paths[k].dir = e[2]
        /\ e[1] = "calc" => \E k \in DOMAIN calc_paths : calc_paths[k].dir = e[2]

\* C8: a stored path is that of the first file met for the key, is never
\* replaced, and is the only one parsed.
C8_FirstFileWins ==
    [][/\ C8FirstKept(dens_seen, dens_paths, dens_seen', dens_paths')
       /\ C8FirstKept(calc_seen, calc_paths, calc_seen', calc_paths')
       /\ C8OnlyStoredParsed']_vars

\* Both files of key (313, 1) were met, of either kind; the deeper one came
\* first and is the one that was parsed.
C8_Witness ==
    /\ {DirA, DirA2} \subseteq dens_seen /\ {DirA, DirA2} \subseteq calc_seen
    /\ dens_paths[<<313, 1>>].dir = DirA2
    /\ calc_paths[<<313, 1>>].dir = DirA
    /\ <<"density", DirA2>> \in parsed /\ <<"density", DirA>> \notin parsed
    /\ <<"calc", DirA>> \in parsed /\ <<"calc", DirA2>> \notin parsed

\* C9 -- in the RDF loop each RDF file with a condition-key ancestor gets a
\* distinct sequential index of its key: for one key the indices in the output
\* names are 1, 2, 3, ... in the order met, no two files of a key write the
\* same rdf_T_<T>_P_<P>_<idx> name, and the counters of different keys do not
\* affect each other.
C9Keyed == {d \in DOMAIN rdf_found : rdf_found[d].opened}

C9Outputs(key) == {w \in rdf_written : <<w.T, w.P>> = key}

C9Sequential ==
    /\ \A w, v \in rdf_written :
          (w.T = v.T /\ w.P = v.P /\ w.idx = v.idx) => w.src = v.src
    /\ \A w, v \in rdf_written : w.src = v.src => w = v
    /\ \A w \in rdf_written :
          {v.idx : v \in C9Outputs(<<w.T, w.P>>)}
              = 1..Cardinality(C9Outputs(<<w.T, w.P>>))

C9InOrderMet ==
    /\ rdf_written \subseteq rdf_written'
    /\ \A w \in rdf_written' \ rdf_written :
          /\ w.src \in DOMAIN rdf_found' \ DOMAIN rdf_found
          /\ w.idx = 1 + Cardinality(C9Outputs(<<w.T, w.P>>))

\* C9 as stated: every RDF file with a key has an output index, indices of a
\* key are distinct and 1, 2, 3, ... in the order met.
C9_EveryKeyedFileIndexed ==
    [][/\ \A d \in C9Keyed' : \E w \in rdf_written' : w.src = d
       /\ C9Sequential'
       /\ C9InOrderMet]_vars

\* C9 (amended): the RDF files with a key that process_rdf succeeds on, and
\* only they, have an output index; indices of a key are distinct and
\* 1, 2, 3, ... in the order met.
C9_EveryParsedFileIndexed ==
    [][/\ \A d \in C9Keyed' :
             Returned(process_rdf(rdf_found'[d].text)) <=> \E w \in rdf_written' : w.src = d
       /\ C9Sequential'
       /\ C9InOrderMet]_vars

\* Key (313, 1) has outputs 1 and 2, key (100, 20) its own output 1.
C9_Witness ==
    /\ pc = "done"
    /\ \E w \in rdf_written : w.src = DirA2 /\ w.idx = 1
    /\ \E w \in rdf_written : w.src = DirA /\ w.idx = 2
    /\ \E w \in rdf_written : w.src = DirB /\ w.idx = 1

\* C10 -- at every point of the aggregation loop and when the report is
\* written, each record has self_diffusion set iff viscosity is set, and
\* density set if either is; a field once set is not overwritten.
C10InLoop ==
    pc \in {"for_key", "avg_density", "last_diff_visc", "store_diff", "store_visc",
            "scan_rdf", "done"}

C10DensityFirst ==
    \A key \in DOMAIN records :
        (IsSet(key, "self_diffusion") \/ IsSet(key, "viscosity")) => IsSet(key, "density")

C10Paired(keys) ==
    \A key \in keys : IsSet(key, "self_diffusion") <=> IsSet(key, "viscosity")

C10PairedEverywhere == C10Paired(DOMAIN records)

\* between the two stores of an iteration its own record is left out
C10PairedOutsideStores ==
    C10Paired(IF pc = "store_visc" THEN DOMAIN records \ {Head(keys_left)}
              ELSE DOMAIN records)

C10NeverOverwritten ==
    \A key \in DOMAIN records :
        /\ key \in DOMAIN records'
        /\ \A f \in DOMAIN records[key] :
              f \in DOMAIN records'[key] /\ records'[key][f] = records[key][f]

\* C10 as stated: at every point self_diffusion is set iff viscosity is, and
\* density is set if either is; no field is overwritten.
C10_PairedAtEveryPoint ==
    [][/\ C10InLoop' => C10DensityFirst' /\ C10PairedEverywhere'
       /\ C10NeverOverwritten]_vars

\* C10 (amended): density is set if self_diffusion or viscosity is, no field
\* is overwritten, and self_diffusion is set iff viscosity is except for the
\* current key between its two stores.
C10_PairedBetweenIterations ==
    [][/\ C10InLoop' =>
             /\ C10DensityFirst'
             /\ C10PairedOutsideStores'
       /\ C10NeverOverwritten]_vars

\* The report is written with one record complete and one holding density
\* alone (its properties file has no viscosity).
C10_Witness ==
    /\ pc = "scan_rdf"
    /\ IsSet(<<100, 20>>, "density") /\ IsSet(<<100, 20>>, "viscosity")
    /\ IsSet(<<100, 20>>, "self_diffusion")
    /\ IsSet(<<313, 1>>, "density") /\ ~IsSet(<<313, 1>>, "self_diffusion")
    /\ ~IsSet(<<313, 1>>, "viscosity")

====
